---- MODULE Spec2Model ----
(***************************************************************************)
(* Cause list parser of scripts/cause_list_parser.py.                      *)
(*                                                                         *)
(* Text is a flat sequence of tokens, as full_text is a flat string: a     *)
(* token is a maximal run of non-whitespace characters, written as a       *)
(* sequence of one-character strings, and NL is the newline between two    *)
(* lines.  The multi-word lexical markers the regular expressions look for *)
(* ("COURT HALL NO :", "Cause List No.", "THE HON'BLE JUSTICE", "PET:",    *)
(* "RES:", the stage keywords) are single tokens holding the marker as one *)
(* string.  A position in the text is an index into the token sequence.    *)
(***************************************************************************)
EXTENDS Integers, Sequences, FiniteSets, TLC

VARIABLES
    pdf,         \* the text the pages of pdf_file hold
    text,        \* full_text of parse_cause_list_pdf
    pc,          \* position of parse_cause_list_pdf: "start", "halls", "done"
    court_halls, \* court_halls of parse_cause_list_pdf
    hall_idx,    \* index of the next element of court_halls the loop takes
    all_cases,   \* all_cases of parse_cause_list_pdf
    line_in,     \* the argument of parse_case_line
    parsed,      \* the value parse_case_line returned for line_in
    now,         \* the calendar date datetime.now() gives
    runs,        \* the locals of each of two calls of parse_cause_list_pdf
    remote,      \* what the edge function call of the fetch does
    main_pc,     \* position of main: "start", "downloaded", "parsed", "done"
    pdf_file,    \* pdf_file of main
    main_cases,  \* cases of main
    stored,      \* the rows the cause list table holds
    log,         \* the messages logged and printed, in order
    heard_cases, \* the rows of table heard_cases
    unique_key,  \* heard_cases has a unique key (date, court_hall, case_number)
    scr,         \* the locals of each of two calls of update_supabase_recordwise
    cause_list,       \* the rows of table cause_list, in the order select returns them
    judge_statistics, \* the rows of table judge_statistics
    daily_summary,    \* the rows of table daily_summary
    case_history,     \* the rows of table case_history
    eod_log           \* what the calls of process_eod have logged, one entry a call

parseVars == <<pdf, text, pc, court_halls, hall_idx, all_cases, line_in, parsed>>

parVars == <<runs>>

mainVars == <<remote, main_pc, pdf_file, main_cases, stored, log>>

boardVars == <<heard_cases, unique_key, scr>>

eodVars == <<cause_list, judge_statistics, daily_summary, case_history, eod_log>>

vars == <<parseVars, now, parVars, mainVars, boardVars, eodVars>>

\* Python's None
None == [none |-> TRUE]

\* the two calls that run side by side
Procs == {1, 2}

\* two calendar dates as strftime('%Y-%m-%d') writes them, the earlier first
Day1 == "2026-01-20"

Day2 == "2026-01-23"

Days == {Day1, Day2}

\* the parts of the program that are not running
ParIdle == runs = [p \in Procs |-> [pc |-> "idle"]]

MainIdle ==
    /\ remote = None
    /\ main_pc = "idle"
    /\ pdf_file = None
    /\ main_cases = <<>>
    /\ stored = {}
    /\ log = <<>>

BoardIdle ==
    /\ heard_cases = {}
    /\ unique_key = FALSE
    /\ scr = [p \in Procs |-> [pc |-> "idle"]]

EodIdle ==
    /\ cause_list = <<>>
    /\ judge_statistics = {}
    /\ daily_summary = {}
    /\ case_history = {}
    /\ eod_log = <<>>

ParseIdle ==
    /\ pdf = <<>>
    /\ text = <<>>
    /\ pc = "idle"
    /\ court_halls = <<>>
    /\ hall_idx = 1
    /\ all_cases = <<>>
    /\ line_in = <<>>
    /\ parsed = None

(***************************************************************************)
(* Characters                                                              *)
(***************************************************************************)
DigitChars == <<"0", "1", "2", "3", "4", "5", "6", "7", "8", "9">>

LowerChars == <<"a", "b", "c", "d", "e", "f", "g", "h", "i", "j", "k", "l", "m",
                "n", "o", "p", "q", "r", "s", "t", "u", "v", "w", "x", "y", "z">>

UpperChars == <<"A", "B", "C", "D", "E", "F", "G", "H", "I", "J", "K", "L", "M",
                "N", "O", "P", "Q", "R", "S", "T", "U", "V", "W", "X", "Y", "Z">>

\* \d
IsDigit(c) == \E i \in 1..10 : DigitChars[i] = c

DigitVal(c) == (CHOOSE i \in 1..10 : DigitChars[i] = c) - 1

\* str.upper() on one character
UpperChar(c) ==
    IF \E i \in 1..26 : LowerChars[i] = c
    THEN UpperChars[CHOOSE i \in 1..26 : LowerChars[i] = c]
    ELSE c

\* str.upper() on a token
UpperTok(tok) == [i \in 1..Len(tok) |-> UpperChar(tok[i])]

\* int() of a run of digits
RECURSIVE ToInt(_)
ToInt(ds) ==
    IF ds = <<>> THEN 0
    ELSE 10 * ToInt(SubSeq(ds, 1, Len(ds) - 1)) + DigitVal(ds[Len(ds)])

\* the run of digits a token starts with: what (\d+) takes at the token's start
RECURSIVE LeadingDigits(_)
LeadingDigits(tok) ==
    IF tok = <<>> \/ ~IsDigit(tok[1]) THEN <<>>
    ELSE <<tok[1]>> \o LeadingDigits(Tail(tok))

\* the run of digits a token ends with: what (\d+)\s+ takes, searching from the left
RECURSIVE TrailingDigits(_)
TrailingDigits(tok) ==
    IF tok = <<>> \/ ~IsDigit(tok[Len(tok)]) THEN <<>>
    ELSE TrailingDigits(SubSeq(tok, 1, Len(tok) - 1)) \o <<tok[Len(tok)]>>

IsAllDigits(tok) == tok # <<>> /\ LeadingDigits(tok) = tok

\* re.IGNORECASE match of the literal code at the start of the token
StartsWithCI(tok, code) ==
    /\ Len(tok) >= Len(code)
    /\ UpperTok(SubSeq(tok, 1, Len(code))) = UpperTok(code)

(***************************************************************************)
(* Lexical markers                                                         *)
(***************************************************************************)
NL == <<"\n">>
HallKw == <<"COURT HALL NO :">>
ListKw == <<"Cause List No.">>
JudgeKw == <<"THE HON'BLE JUSTICE">>
PetKw == <<"PET:">>
ResKw == <<"RES:">>
JusticeWord == <<"J", "U", "S", "T", "I", "C", "E">>
ChiefWord == <<"C", "H", "I", "E", "F">>

\* the alternation of case_pattern
CaseTypeCodes ==
    { <<"W", "P">>, <<"W", "A">>, <<"C", "C", "C">>, <<"M", "F", "A">>,
      <<"C", "O", "M", "A", "P">>, <<"R", "P">>, <<"P", "I", "L">>,
      <<"C", "R", "L", ".", "R", "P">>, <<"M", "V">>, <<"D", "M">>,
      <<"C", "r", ".", "P", "C">>, <<"B", "N", "S", "S">> }

\* the alternation of the "another case number" test of the continuation loop
StopCodes ==
    { <<"W", "P">>, <<"W", "A">>, <<"C", "C", "C">>, <<"M", "F", "A">>,
      <<"C", "O", "M", "A", "P">>, <<"R", "P">>, <<"P", "I", "L">>,
      <<"C", "R", "L">>, <<"M", "V">> }

\* the stage keywords of extract_cases
StageKeywords ==
    { <<"ORDERS">>, <<"HEARING">>, <<"ADMISSION">>, <<"ARGUMENTS">>, <<"FINAL">>,
      <<"INTERLOCUTORY">>, <<"APPLN">>, <<"APPLICATION">>, <<"MENTION">> }

\* the number of lines, the case line included, the continuation loop looks at
ContWindow == 10

\* extract_cause_list_number's value when the section has no list marker
DefaultListNumber == 1

(***************************************************************************)
(* parse_case_line                                                         *)
(***************************************************************************)
\* \d+/\d{4} at the start of a token that starts with n digits
NumYearAfter(tok, n) ==
    IF /\ n >= 1
       /\ Len(tok) >= n + 5
       /\ tok[n + 1] = "/"
       /\ \A i \in (n + 2)..(n + 5) : IsDigit(tok[i])
    THEN SubSeq(tok, 1, n + 5)
    ELSE <<>>

\* \d+/\d{4} at the start of a token: the text it matches, <<>> when it does not
NumYearPrefix(tok) == NumYearAfter(tok, Len(LeadingDigits(tok)))

\* (?:WP|WA|...)[^\s]* at the start of a token
StartsWithCaseType(tok) == \E c \in CaseTypeCodes : StartsWithCI(tok, c)

\* case_pattern matches with its serial number ending token k of the line
CaseMatchAt(line, k) ==
    /\ k + 2 <= Len(line)
    /\ TrailingDigits(line[k]) # <<>>
    /\ StartsWithCaseType(line[k + 1])
    /\ NumYearPrefix(line[k + 2]) # <<>>

\* faulty variant of CaseTypeOf: the catalogue code that matched, without [^\s]*
CaseTypeCodeOnly(case_number) ==
    LET tok == case_number[1]
        c == CHOOSE c \in CaseTypeCodes : StartsWithCI(tok, c)
    IN  UpperTok(c)

\* case_number.split()[0].upper()
CaseTypeOf(case_number) == UpperTok(case_number[1])

\* the index of the first token of seq equal to kw ignoring case, 0 when none
FirstIndexCI(seq, kw) ==
    IF \E i \in 1..Len(seq) : UpperTok(seq[i]) = UpperTok(kw)
    THEN CHOOSE i \in 1..Len(seq) :
            /\ UpperTok(seq[i]) = UpperTok(kw)
            /\ \A j \in 1..(i - 1) : UpperTok(seq[j]) # UpperTok(kw)
    ELSE 0

\* the PET: and RES: columns of remaining_text, with pet_match at token p and
\* res_match at token r (0: no match)
CaseColumns(sl_no, case_number, remaining_text, p, r) ==
    [ sl_no |-> sl_no,
      case_number |-> case_number,
      case_type |-> CaseTypeOf(case_number),
      petitioner_text |->
          IF p > 0 /\ r > 0 THEN SubSeq(remaining_text, p + 1, r - 1)
          ELSE IF p > 0 THEN SubSeq(remaining_text, p + 1, Len(remaining_text))
          ELSE <<>>,
      respondent_text |->
          IF r > 0 THEN SubSeq(remaining_text, r + 1, Len(remaining_text))
          ELSE <<>> ]

\* line[match.end():].strip(), the match ending after num in token k + 2
RemainingText(line, k, num) ==
    (IF Len(num) = Len(line[k + 2]) THEN <<>>
     ELSE <<SubSeq(line[k + 2], Len(num) + 1, Len(line[k + 2]))>>)
    \o SubSeq(line, k + 3, Len(line))

\* the groups of the match and the columns of the text after it
CaseFields(sl_no, case_number, remaining_text) ==
    CaseColumns(sl_no, case_number, remaining_text,
                FirstIndexCI(remaining_text, PetKw), FirstIndexCI(remaining_text, ResKw))

\* re.search: the leftmost match
FirstCaseMatch(line) ==
    CHOOSE k \in 1..Len(line) :
        CaseMatchAt(line, k) /\ \A j \in 1..(k - 1) : ~CaseMatchAt(line, j)

CaseMatch(line, k, num) ==
    CaseFields(ToInt(TrailingDigits(line[k])), <<line[k + 1], num>>,
               RemainingText(line, k, num))

CaseMatchFrom(line, k) == CaseMatch(line, k, NumYearPrefix(line[k + 2]))

parse_case_line(line) ==
    IF \E k \in 1..Len(line) : CaseMatchAt(line, k)
    THEN CaseMatchFrom(line, FirstCaseMatch(line))
    ELSE None

(***************************************************************************)
(* split_by_court_halls                                                    *)
(***************************************************************************)
\* the index of the first token after position i that is not a newline (\s*),
\* Len(t) + 1 when there is none
NextTokIdx(t, i) ==
    IF \E j \in (i + 1)..Len(t) : t[j] # NL
    THEN CHOOSE j \in (i + 1)..Len(t) :
            t[j] # NL /\ \A m \in (i + 1)..(j - 1) : t[m] = NL
    ELSE Len(t) + 1

\* hall_pattern matches at position i: group(1) is the run of digits that follows
HallMatchAt(t, i) ==
    /\ UpperTok(t[i]) = UpperTok(HallKw)
    /\ NextTokIdx(t, i) <= Len(t)
    /\ LeadingDigits(t[NextTokIdx(t, i)]) # <<>>

\* match.group(1) of the hall marker at position i
HallGroup(t, i) == LeadingDigits(t[NextTokIdx(t, i)])

\* end_pattern -+END-+- matches inside the token
IsEndTok(tok) ==
    \E i \in 2..(Len(tok) - 4) :
        /\ tok[i - 1] = "-"
        /\ UpperTok(SubSeq(tok, i, i + 2)) = <<"E", "N", "D">>
        /\ tok[i + 3] = "-"
        /\ tok[i + 4] = "-"

\* list(re.finditer(hall_pattern, text)): the positions, in increasing order
RECURSIVE HallMatchesFrom(_, _)
HallMatchesFrom(t, i) ==
    IF i > Len(t) THEN <<>>
    ELSE IF HallMatchAt(t, i) THEN <<i>> \o HallMatchesFrom(t, i + 1)
    ELSE HallMatchesFrom(t, i + 1)

hall_matches(t) == HallMatchesFrom(t, 1)

\* end_pos of the section of the i-th hall match: one past the END marker that
\* follows start_pos, else the start of the next hall, else the end of the text
SectionEnd(t, hm, i) ==
    IF \E e \in hm[i]..Len(t) : IsEndTok(t[e])
    THEN (CHOOSE e \in hm[i]..Len(t) :
             IsEndTok(t[e]) /\ \A m \in hm[i]..(e - 1) : ~IsEndTok(t[m])) + 1
    ELSE IF i + 1 <= Len(hm) THEN hm[i + 1]
    ELSE Len(t) + 1

\* start_pos is kept with each section (the code logs it) to name document lines
Sections(t, hm) ==
    [ i \in 1..Len(hm) |->
        [ hall_number |-> ToInt(HallGroup(t, hm[i])),
          start_pos |-> hm[i],
          text |-> SubSeq(t, hm[i], SectionEnd(t, hm, i) - 1) ] ]

split_by_court_halls(t) == Sections(t, hall_matches(t))

(***************************************************************************)
(* extract_judges, extract_cause_list_number                               *)
(***************************************************************************)
\* str.split('\n')
RECURSIVE SplitLines(_)
SplitLines(t) ==
    IF \E i \in 1..Len(t) : t[i] = NL
    THEN LET i == CHOOSE i \in 1..Len(t) : t[i] = NL /\ \A j \in 1..(i - 1) : t[j] # NL
         IN  <<SubSeq(t, 1, i - 1)>> \o SplitLines(SubSeq(t, i + 1, Len(t)))
    ELSE <<t>>

\* [A-Z\s\.] under re.IGNORECASE, for every character of the token
IsNameTok(tok) ==
    /\ tok # NL
    /\ \A i \in 1..Len(tok) :
          \/ tok[i] = "."
          \/ \E m \in 1..26 : UpperChars[m] = UpperChar(tok[i])

\* the newline that ends the lazy group of judge_pattern when the group starts at
\* position a: the first newline after it, 0 when there is none
NameEndFrom(t, a) ==
    IF \E e \in (a + 1)..Len(t) : t[e] = NL
    THEN CHOOSE e \in (a + 1)..Len(t) : t[e] = NL /\ \A m \in (a + 1)..(e - 1) : t[m] # NL
    ELSE 0

\* judge_pattern at position i: \s+ takes the whitespace after the keyword, the
\* lazy group takes name characters up to the first newline that follows
JudgeNameEnd(t, i) == NameEndFrom(t, NextTokIdx(t, i))

JudgeSpanOk(t, a, e) ==
    /\ a <= Len(t)
    /\ e > 0
    /\ \A m \in a..(e - 1) : IsNameTok(t[m])

JudgeMatchAt(t, i) ==
    /\ UpperTok(t[i]) = UpperTok(JudgeKw)
    /\ JudgeSpanOk(t, NextTokIdx(t, i), JudgeNameEnd(t, i))

\* judge_name.replace('CHIEF JUSTICE', 'Chief Justice'), on whole words
RECURSIVE ReplaceChiefJustice(_)
ReplaceChiefJustice(name) ==
    IF Len(name) < 2 THEN name
    ELSE IF name[1] = ChiefWord /\ name[2] = JusticeWord
    THEN <<<<"C", "h", "i", "e", "f">>, <<"J", "u", "s", "t", "i", "c", "e">>>>
         \o ReplaceChiefJustice(SubSeq(name, 3, Len(name)))
    ELSE <<name[1]>> \o ReplaceChiefJustice(Tail(name))

\* the name after strip, whitespace normalisation, the replacement of CHIEF
\* JUSTICE and the removal of JUSTICE
JudgeNameAt(t, i) ==
    SelectSeq(ReplaceChiefJustice(SubSeq(t, NextTokIdx(t, i), JudgeNameEnd(t, i) - 1)),
              LAMBDA tok : tok # JusticeWord)

NameIfAny(name) == IF name # <<>> THEN <<name>> ELSE <<>>

\* judges: the non-empty names of the matches, in order
RECURSIVE JudgesFrom(_, _)
JudgesFrom(t, i) ==
    IF i > Len(t) THEN <<>>
    ELSE IF JudgeMatchAt(t, i)
    THEN NameIfAny(JudgeNameAt(t, i)) \o JudgesFrom(t, JudgeNameEnd(t, i))
    ELSE JudgesFrom(t, i + 1)

PrimaryAndCo(judges) ==
    [ primary_judge |-> IF Len(judges) > 0 THEN judges[1] ELSE <<<<"Unknown">>>>,
      co_judge |-> IF Len(judges) > 1 THEN judges[2] ELSE None ]

extract_judges(hall_text) == PrimaryAndCo(JudgesFrom(hall_text, 1))

\* Cause List No\.\s*(\d+) matches at position i
ListMatchAt(t, i) ==
    /\ UpperTok(t[i]) = UpperTok(ListKw)
    /\ NextTokIdx(t, i) <= Len(t)
    /\ LeadingDigits(t[NextTokIdx(t, i)]) # <<>>

FirstListMatch(t) ==
    CHOOSE i \in 1..Len(t) : ListMatchAt(t, i) /\ \A j \in 1..(i - 1) : ~ListMatchAt(t, j)

extract_cause_list_number(hall_text) ==
    IF \E i \in 1..Len(hall_text) : ListMatchAt(hall_text, i)
    THEN ToInt(LeadingDigits(hall_text[NextTokIdx(hall_text, FirstListMatch(hall_text))]))
    ELSE DefaultListNumber

(***************************************************************************)
(* extract_cases                                                           *)
(***************************************************************************)
\* ^[-_=]{3,} on the stripped line
IsUnderline(line) ==
    /\ line # <<>>
    /\ Len(line[1]) >= 3
    /\ \A i \in 1..3 : line[1][i] \in {"-", "_", "="}

\* re.search of the stage keywords in the line, ignoring case
HasStageKeyword(line) ==
    \E i \in 1..Len(line) : UpperTok(line[i]) \in StageKeywords

\* ^\d+\s+(?:WP|WA|CCC|MFA|COMAP|RP|PIL|CRL|MV) on the stripped line
IsCaseAnchor(line) ==
    /\ Len(line) >= 2
    /\ IsAllDigits(line[1])
    /\ \E c \in StopCodes : StartsWithCI(line[2], c)

\* 'RES:' not in next_line and 'PET:' not in next_line (case-sensitive)
HasNoLabel(line) == \A i \in 1..Len(line) : line[i] # ResKw /\ line[i] # PetKw

\* the last line the continuation loop of the case at line i looks at
ContinuationLast(lines, i) ==
    IF i + ContWindow - 1 < Len(lines) THEN i + ContWindow - 1 ELSE Len(lines)

\* the lines the continuation loop appends for the case at line i, from line j on:
\* their indexes in lines
RECURSIVE ContinuationFrom(_, _, _)
ContinuationFrom(lines, i, j) ==
    IF j > ContinuationLast(lines, i) THEN <<>>
    ELSE IF IsCaseAnchor(lines[j]) THEN <<>>
    ELSE IF j + 1 <= Len(lines) /\ IsUnderline(lines[j + 1]) THEN <<>>
    ELSE IF lines[j] # <<>> /\ HasNoLabel(lines[j])
    THEN <<j>> \o ContinuationFrom(lines, i, j + 1)
    ELSE ContinuationFrom(lines, i, j + 1)

\* case_record of extract_cases.  line and continuation name the lines of the
\* section the record was built from.
CaseRecord(p, current_stage, i, continuation) ==
    [ sl_no |-> p.sl_no,
      case_number |-> p.case_number,
      case_type |-> p.case_type,
      case_stage |-> current_stage,
      petitioner_text |-> p.petitioner_text,
      respondent_text |-> p.respondent_text,
      line |-> i,
      continuation |-> continuation ]

\* what the loop body appends for line i, p being parse_case_line's value
CaseIfParsed(p, current_stage, lines, i) ==
    IF p = None THEN <<>>
    ELSE <<CaseRecord(p, current_stage, i, ContinuationFrom(lines, i, i + 1))>>

\* faulty variant of IsStageHeader: the underline below the line is not looked at
IsStageHeaderNoUnderline(lines, i) == HasStageKeyword(lines[i])

\* the line is a stage header: a stage keyword on it, an underline below it
IsStageHeader(lines, i) ==
    /\ i + 1 <= Len(lines)
    /\ IsUnderline(lines[i + 1])
    /\ HasStageKeyword(lines[i])

\* the body of the loop over the lines, from line i on, with current_stage
RECURSIVE ExtractFrom(_, _, _)
ExtractFrom(lines, i, current_stage) ==
    IF i > Len(lines) THEN <<>>
    ELSE IF lines[i] # <<>> /\ IsStageHeader(lines, i)
    THEN ExtractFrom(lines, i + 1, lines[i])
    ELSE (IF lines[i] = <<>> THEN <<>>
          ELSE CaseIfParsed(parse_case_line(lines[i]), current_stage, lines, i))
         \o ExtractFrom(lines, i + 1, current_stage)

extract_cases(hall_text) == ExtractFrom(SplitLines(hall_text), 1, None)

(***************************************************************************)
(* parse_cause_list_pdf                                                    *)
(***************************************************************************)
\* the line of the document that position pos of the text lies on
LineOf(t, pos) == 1 + Cardinality({i \in 1..(pos - 1) : t[i] = NL})

\* case_record of parse_cause_list_pdf.  Three fields are not the code's: they
\* name what the record was built from.  hall_pos is the position of the hall
\* marker of the section, src and cont_src are the document lines of the case
\* line and of its continuation lines (first is the section's first line).
HallRecord(hall_number, judges, list_number, case, first, start_pos) ==
    [ court_hall |-> hall_number,
      list_number |-> list_number,
      sl_no |-> case.sl_no,
      case_number |-> case.case_number,
      case_type |-> case.case_type,
      case_stage |-> case.case_stage,
      judge_name |-> judges.primary_judge,
      co_judge_name |-> judges.co_judge,
      respondent_text |-> case.respondent_text,
      hall_pos |-> start_pos,
      src |-> first + case.line - 1,
      cont_src |-> [ m \in 1..Len(case.continuation) |-> first + case.continuation[m] - 1 ] ]

HallRecordsOf(hall_number, judges, list_number, cases, first, start_pos) ==
    [ i \in 1..Len(cases) |->
        HallRecord(hall_number, judges, list_number, cases[i], first, start_pos) ]

\* the records the loop body appends for one section
HallRecords(t, hall_data) ==
    HallRecordsOf(hall_data.hall_number,
                  extract_judges(hall_data.text),
                  extract_cause_list_number(hall_data.text),
                  extract_cases(hall_data.text),
                  LineOf(t, hall_data.start_pos),
                  hall_data.start_pos)

(***************************************************************************)
(* The documents and the lines the checks draw from                        *)
(***************************************************************************)
\* the longest document over all of DocLines, in lines
MaxLines == 3

\* the longest document over CoreLines, in lines
MaxCoreLines == 4

\* the most text lines that follow the case line of a long document
MaxFill == 10

TokEnd == <<"-", "-", "-", "E", "N", "D", "-", "-", "-">>
TokNum5 == <<"5", "/", "2", "0", "2", "4">>
TokNum6 == <<"6", "/", "2", "0", "2", "4">>
TokNum7 == <<"7", "/", "2", "0", "2", "4">>
TokWP == <<"W", "P">>
TokWA == <<"W", "A">>
TokDM == <<"D", "M">>
TokMFA == <<"M", "F", "A">>
TokMFACROB == <<"M", "F", "A", ".", "C", "R", "O", "B">>

LineHall1 == <<HallKw, <<"1">>>>
LineHall2A == <<HallKw, <<"2", "A">>>>
LineEnd == <<TokEnd>>
LineList2 == <<ListKw, <<"2">>>>
LineList3 == <<ListKw, <<"3">>>>
LineJudge == <<JudgeKw, <<"X">>>>
LineCase1 == <<<<"1">>, TokWP, TokNum5, PetKw, <<"A">>, ResKw, <<"B">>>>
LineCaseEmb == <<<<"2">>, TokWA, TokNum6, PetKw, <<"C">>, ResKw, <<"D">>, HallKw, <<"3">>>>
LineCaseDM == <<<<"3">>, TokDM, TokNum7>>
LineText == <<<<"X", "Y", "Z">>>>
LineStage == <<<<"ORDERS">>>>
LineUnder == <<<<"-", "-", "-">>>>

DocLines ==
    { LineHall1, LineHall2A, LineEnd, LineList2, LineList3, LineJudge, LineCase1,
      LineCaseEmb, LineCaseDM, LineText, LineStage, LineUnder }

CoreLines == { LineHall1, LineHall2A, LineEnd, LineList2, LineList3, LineCase1, LineCaseEmb }

\* the text of the pages: every line followed by a newline
RECURSIVE Join(_)
Join(lines) ==
    IF lines = <<>> THEN <<>>
    ELSE Head(lines) \o <<NL>> \o Join(Tail(lines))

ShortDocs == { Join(ls) : ls \in UNION { [1..n -> DocLines] : n \in 0..MaxLines } }

CoreDocs == { Join(ls) : ls \in UNION { [1..n -> CoreLines] : n \in 0..MaxCoreLines } }

LongDocs ==
    { Join(<<LineHall1, LineCase1>> \o [i \in 1..n |-> LineText] \o tl) :
        n \in 0..MaxFill, tl \in {<<>>, <<LineCaseDM, LineText>>} }

\* the most lines after the hall marker of a document with stage headers
MaxStageLines == 5

LineHearing == <<<<"HEARING">>>>

StageLines == { LineHall1, LineStage, LineHearing, LineUnder, LineCase1, LineEnd }

StageDocs ==
    { Join(<<LineHall1>> \o ls) :
        ls \in UNION { [1..n -> StageLines] : n \in 0..MaxStageLines } }

Docs == ShortDocs \cup CoreDocs \cup LongDocs \cup StageDocs

\* the case lines parse_case_line is applied to on its own
SerialToks == { <<"7">>, <<"4", "4">>, <<"4", "4", ".", "1">>, <<"4", "5">>, <<"N", "o">> }

TypeToks ==
    { TokWP, TokMFA, TokMFACROB, <<"m", "f", "a", ".", "c", "r", "o", "b">>, TokDM,
      <<"C", "r", ".", "P", "C">>, <<"X", "X">> }

NumToks == { <<"1", "2", "3", "/", "2", "0", "2", "4">>, <<"5", "/", "2", "4">> }

TailToks ==
    { <<>>, <<PetKw, <<"A">>, ResKw, <<"B">>>>, <<ResKw, <<"B">>>>,
      <<ResKw, <<"B">>, PetKw, <<"A">>>>,
      <<<<"(", "C", "i", "v", "i", "l">>, <<"(", "M", "i", "s", "c", ")", ")">>>> }

LineInputs ==
    { <<s, ty, nm>> \o tl : s \in SerialToks, ty \in TypeToks, nm \in NumToks, tl \in TailToks }

(***************************************************************************)
(* parse_cause_list_pdf as steps                                           *)
(***************************************************************************)
Init ==
    /\ pdf \in Docs
    /\ text = <<>>
    /\ pc = "start"
    /\ court_halls = <<>>
    /\ hall_idx = 1
    /\ all_cases = <<>>
    /\ line_in = <<>>
    /\ parsed = None
    /\ now = Day1
    /\ ParIdle /\ MainIdle /\ BoardIdle /\ EodIdle

\* extract_text_from_pdf and the test of its result: the text of the pages, or ""
\* when the reader raises, and an empty text returns [] at once
ExtractText ==
    /\ pc = "start"
    /\ text' \in {pdf, <<>>}
    /\ pc' = IF text' = <<>> THEN "done" ELSE "split"
    /\ UNCHANGED <<pdf, court_halls, hall_idx, all_cases, line_in, parsed>>
    /\ UNCHANGED <<now, parVars, mainVars, boardVars, eodVars>>

SplitHalls ==
    /\ pc = "split"
    /\ court_halls' = split_by_court_halls(text)
    /\ hall_idx' = 1
    /\ pc' = "halls"
    /\ UNCHANGED <<pdf, text, all_cases, line_in, parsed>>
    /\ UNCHANGED <<now, parVars, mainVars, boardVars, eodVars>>

\* faulty variant of ProcessHall: one pass of the loop that also stamps the
\* section's hall on the records appended before
ProcessHallRestamp ==
    /\ pc = "halls"
    /\ hall_idx <= Len(court_halls)
    /\ all_cases' =
          [ i \in 1..Len(all_cases) |->
              [all_cases[i] EXCEPT !.court_hall = court_halls[hall_idx].hall_number] ]
          \o HallRecords(text, court_halls[hall_idx])
    /\ hall_idx' = hall_idx + 1
    /\ UNCHANGED <<pdf, text, pc, court_halls, line_in, parsed>>
    /\ UNCHANGED <<now, parVars, mainVars, boardVars, eodVars>>

\* one pass of the loop over court_halls
ProcessHall ==
    /\ pc = "halls"
    /\ hall_idx <= Len(court_halls)
    /\ all_cases' = all_cases \o HallRecords(text, court_halls[hall_idx])
    /\ hall_idx' = hall_idx + 1
    /\ UNCHANGED <<pdf, text, pc, court_halls, line_in, parsed>>
    /\ UNCHANGED <<now, parVars, mainVars, boardVars, eodVars>>

\* the loop is over: return all_cases
Return ==
    /\ pc = "halls"
    /\ hall_idx > Len(court_halls)
    /\ pc' = "done"
    /\ UNCHANGED <<pdf, text, court_halls, hall_idx, all_cases, line_in, parsed>>
    /\ UNCHANGED <<now, parVars, mainVars, boardVars, eodVars>>

Next == ExtractText \/ SplitHalls \/ ProcessHall \/ Return

Spec == Init /\ [][Next]_vars

(***************************************************************************)
(* parse_case_line applied to one line                                     *)
(***************************************************************************)
InitLine ==
    /\ pdf = <<>>
    /\ text = <<>>
    /\ pc = "line"
    /\ court_halls = <<>>
    /\ hall_idx = 1
    /\ all_cases = <<>>
    /\ line_in \in LineInputs
    /\ parsed = None
    /\ now = Day1
    /\ ParIdle /\ MainIdle /\ BoardIdle /\ EodIdle

ParseLine ==
    /\ pc = "line"
    /\ parsed' = parse_case_line(line_in)
    /\ pc' = "parsed"
    /\ UNCHANGED <<pdf, text, court_halls, hall_idx, all_cases, line_in>>
    /\ UNCHANGED <<now, parVars, mainVars, boardVars, eodVars>>

NextLine == ParseLine

SpecLine == InitLine /\ [][NextLine]_vars

(***************************************************************************)
(* Two calls of parse_cause_list_pdf side by side, each on its own         *)
(* document, and the clock both read                                       *)
(***************************************************************************)
\* the documents of the two calls
ParDocs ==
    { <<>>,
      Join(<<LineHall1, LineCase1>>),
      Join(<<LineHall1, LineList2, LineCase1, LineEnd, LineHall2A, LineCaseDM>>) }

\* case_record of parse_cause_list_pdf with its 'date': date_str
Dated(records, date_str) ==
    [ i \in 1..Len(records) |-> [date |-> date_str] @@ records[i] ]

\* the loop over court_halls, from element i on
RECURSIVE AllCasesFrom(_, _, _, _)
AllCasesFrom(full_text, halls, i, date_str) ==
    IF i > Len(halls) THEN <<>>
    ELSE Dated(HallRecords(full_text, halls[i]), date_str)
         \o AllCasesFrom(full_text, halls, i + 1, date_str)

\* parse_cause_list_pdf as one function of what extract_text_from_pdf returned
\* and of the date the clock gave
parse_cause_list_pdf(full_text, date_str) ==
    IF full_text = <<>> THEN <<>>
    ELSE AllCasesFrom(full_text, split_by_court_halls(full_text), 1, date_str)

InitPar ==
    /\ ParseIdle /\ MainIdle /\ BoardIdle /\ EodIdle
    /\ now = Day1
    /\ runs \in [ Procs ->
                    { [ pdf |-> d, text |-> <<>>, pc |-> "start", court_halls |-> <<>>,
                        hall_idx |-> 1, all_cases |-> <<>>, date_str |-> None ] :
                      d \in ParDocs } ]

\* the calendar date changes
Tick ==
    /\ now = Day1
    /\ now' = Day2
    /\ UNCHANGED <<parseVars, parVars, mainVars, boardVars, eodVars>>

\* extract_text_from_pdf and the test of its result, in call p
ExtractTextOf(p) ==
    /\ runs[p].pc = "start"
    /\ \E t \in {runs[p].pdf, <<>>} :
          runs' = [runs EXCEPT ![p].text = t,
                               ![p].pc = IF t = <<>> THEN "done" ELSE "split"]
    /\ UNCHANGED <<parseVars, now, mainVars, boardVars, eodVars>>

\* split_by_court_halls and date_str = datetime.now().strftime('%Y-%m-%d'), in call p
SplitHallsOf(p) ==
    /\ runs[p].pc = "split"
    /\ runs' = [runs EXCEPT ![p].court_halls = split_by_court_halls(runs[p].text),
                            ![p].date_str = now,
                            ![p].hall_idx = 1,
                            ![p].pc = "halls"]
    /\ UNCHANGED <<parseVars, now, mainVars, boardVars, eodVars>>

\* faulty variant of ProcessHallOf: all_cases is one list the calls share
ProcessHallShared(p) ==
    /\ runs[p].pc = "halls"
    /\ runs[p].hall_idx <= Len(runs[p].court_halls)
    /\ runs' =
          [ q \in Procs |->
              IF q = p
              THEN [runs[p] EXCEPT
                      !.all_cases = @ \o Dated(HallRecords(runs[p].text,
                                                           runs[p].court_halls[runs[p].hall_idx]),
                                               runs[p].date_str),
                      !.hall_idx = @ + 1]
              ELSE IF runs[q].pc = "halls"
              THEN [runs[q] EXCEPT
                      !.all_cases = @ \o Dated(HallRecords(runs[p].text,
                                                           runs[p].court_halls[runs[p].hall_idx]),
                                               runs[p].date_str)]
              ELSE runs[q] ]
    /\ UNCHANGED <<parseVars, now, mainVars, boardVars, eodVars>>

\* one pass of the loop over court_halls, in call p
ProcessHallOf(p) ==
    /\ runs[p].pc = "halls"
    /\ runs[p].hall_idx <= Len(runs[p].court_halls)
    /\ runs' =
          [runs EXCEPT
              ![p].all_cases = @ \o Dated(HallRecords(runs[p].text,
                                                      runs[p].court_halls[runs[p].hall_idx]),
                                          runs[p].date_str),
              ![p].hall_idx = @ + 1]
    /\ UNCHANGED <<parseVars, now, mainVars, boardVars, eodVars>>

\* the loop is over: call p returns all_cases
ReturnOf(p) ==
    /\ runs[p].pc = "halls"
    /\ runs[p].hall_idx > Len(runs[p].court_halls)
    /\ runs' = [runs EXCEPT ![p].pc = "done"]
    /\ UNCHANGED <<parseVars, now, mainVars, boardVars, eodVars>>

NextPar ==
    \/ Tick
    \/ \E p \in Procs : ExtractTextOf(p)
    \/ \E p \in Procs : SplitHallsOf(p)
    \/ \E p \in Procs : ProcessHallOf(p)
    \/ \E p \in Procs : ReturnOf(p)

SpecPar == InitPar /\ [][NextPar]_vars

(***************************************************************************)
(* main: download_pdf, parse_cause_list_pdf, insert_to_supabase            *)
(***************************************************************************)
\* a page of lines of text, and a page whose extract_text raises
Page(lines) == [lines |-> lines, readable |-> TRUE]

Unreadable == [lines |-> <<>>, readable |-> FALSE]

\* no date
NoDate == "none"

\* a case line case_pattern does not match: the year has two digits
LineBadCase == <<<<"4">>, TokWP, <<"5", "/", "2", "4">>>>

\* the pages of the documents: the lines of text of each
Pages ==
    { Unreadable,
      Page(<<>>),
      Page(<<LineHall1, LineCase1>>),
      Page(<<LineHall1, LineBadCase, LineCaseDM>>) }

\* the most pages of a document
MaxPages == 2

\* the PDF documents: their pages, and the date their heading states, if any
Pdfs ==
    { [pages |-> pp, dated |-> dd] :
        pp \in UNION { [1..n -> Pages] : n \in 0..MaxPages }, dd \in Days \cup {NoDate} }

\* bytes that are no PDF: none at all
NoBytes == [nobytes |-> TRUE]

\* what supabase.functions.invoke does: it raises, it returns something that is
\* not bytes, or it returns bytes
Remotes ==
    { [kind |-> "raise"], [kind |-> "other"], [kind |-> "bytes", body |-> NoBytes] }
    \cup { [kind |-> "bytes", body |-> d] : d \in Pdfs }

\* a row the table holds from an earlier run on date d
EarlierRow(d) == [date |-> d, court_hall |-> 1, case_number |-> <<TokWP, TokNum5>>]

\* one message of logging.info, logging.error or print
Msg(by, level, msg) == [by |-> by, level |-> level, msg |-> msg]

\* http_worker_call_to_supabase: the response, None when the call raised
http_worker_call_to_supabase(r) == IF r.kind = "raise" THEN None ELSE r

\* download_pdf: BytesIO(response).  BytesIO(None) is an empty buffer, and
\* BytesIO raises on what is not bytes, which returns None
download_pdf(response) ==
    IF response = None THEN [body |-> NoBytes]
    ELSE IF response.kind = "bytes" THEN [body |-> response.body]
    ELSE None

\* text + "\n" of one page
RECURSIVE PageText(_)
PageText(lines) ==
    IF lines = <<>> THEN <<NL>>
    ELSE Head(lines) \o (IF Tail(lines) = <<>> THEN <<NL>> ELSE <<NL>> \o PageText(Tail(lines)))

\* full_text += text + "\n" over the pages
RECURSIVE FullText(_)
FullText(pages) ==
    IF pages = <<>> THEN <<>>
    ELSE PageText(Head(pages).lines) \o FullText(Tail(pages))

\* extract_text_from_pdf: "" when PdfReader or extract_text of a page raises
extract_text_from_pdf(file) ==
    IF file.body = NoBytes THEN <<>>
    ELSE IF \E i \in 1..Len(file.body.pages) : ~file.body.pages[i].readable THEN <<>>
    ELSE FullText(file.body.pages)

\* what main logs once parse_cause_list_pdf has returned
AfterParse(parsed_cases) ==
    IF parsed_cases # <<>>
    THEN <<Msg("main", "INFO", "Successfully parsed")>>
    ELSE <<Msg("main", "ERROR", "No cases were parsed from PDF")>>

InitMain ==
    /\ ParseIdle /\ ParIdle /\ BoardIdle /\ EodIdle
    /\ now \in Days
    /\ remote \in Remotes
    /\ main_pc = "start"
    /\ pdf_file = None
    /\ main_cases = <<>>
    /\ stored \in {{}, {EarlierRow(now)}}
    /\ log = <<>>

\* pdf_file = download_pdf(CAUSE_LIST_URL) and the test of it
Download ==
    /\ main_pc = "start"
    /\ pdf_file' = download_pdf(http_worker_call_to_supabase(remote))
    /\ log' = log
              \o <<Msg("download_pdf", "INFO", "PDF downloaded successfully")>>
              \o (IF remote.kind = "raise"
                  THEN <<Msg("http_worker_call_to_supabase", "PRINT", "Exception")>>
                  ELSE <<>>)
              \o (IF pdf_file' = None
                  THEN <<Msg("download_pdf", "ERROR", "PDF download error"),
                         Msg("main", "ERROR", "Failed to download PDF")>>
                  ELSE <<>>)
    /\ main_pc' = IF pdf_file' = None THEN "done" ELSE "downloaded"
    /\ UNCHANGED <<remote, main_cases, stored>>
    /\ UNCHANGED <<parseVars, now, parVars, boardVars, eodVars>>

\* cases = parse_cause_list_pdf(pdf_file) and the test of cases
ParseDoc ==
    /\ main_pc = "downloaded"
    /\ main_cases' = parse_cause_list_pdf(extract_text_from_pdf(pdf_file), now)
    /\ log' = log
              \o (IF extract_text_from_pdf(pdf_file) = <<>>
                     /\ (pdf_file.body = NoBytes \/ pdf_file.body.pages # <<>>)
                  THEN <<Msg("extract_text_from_pdf", "ERROR", "PDF text extraction error")>>
                  ELSE <<>>)
              \o AfterParse(main_cases')
    /\ main_pc' = IF main_cases' # <<>> THEN "parsed" ELSE "done"
    /\ UNCHANGED <<remote, pdf_file, stored>>
    /\ UNCHANGED <<parseVars, now, parVars, boardVars, eodVars>>

\* insert_to_supabase(cases): the RPC stores the rows, or raises, which is logged
\* and not raised again; then main's last message
Insert ==
    /\ main_pc = "parsed"
    /\ \E rpc_raises \in BOOLEAN :
          /\ stored' = IF rpc_raises THEN stored
                       ELSE stored \cup { main_cases[i] : i \in 1..Len(main_cases) }
          /\ log' = log
                    \o (IF rpc_raises
                        THEN <<Msg("insert_to_supabase", "ERROR", "Supabase RPC error")>>
                        ELSE <<Msg("insert_to_supabase", "INFO", "Processed")>>)
                    \o <<Msg("main", "INFO", "Cause list parsing completed successfully")>>
    /\ main_pc' = "done"
    /\ UNCHANGED <<remote, pdf_file, main_cases>>
    /\ UNCHANGED <<parseVars, now, parVars, boardVars, eodVars>>

NextMain == Download \/ ParseDoc \/ Insert

SpecMain == InitMain /\ [][NextMain]_vars

(***************************************************************************)
(* update_supabase_recordwise of scripts/display_board_scraper.py: two     *)
(* calls side by side on table heard_cases                                 *)
(***************************************************************************)
\* the records scrape_display_board returns: ch_no, list_no, case_no
BoardRecords ==
    { [ch_no |-> 1, list_no |-> 1, case_no |-> <<TokWP, TokNum5>>],
      [ch_no |-> 2, list_no |-> 1, case_no |-> <<TokWA, TokNum6>>] }

\* the most records of one call
MaxRecords == 2

\* the rows select(...).eq('date').eq('court_hall').eq('case_number') returns
Existing(rows, date_str, record) ==
    { r \in rows : /\ r.date = date_str
                   /\ r.court_hall = record.ch_no
                   /\ r.case_number = record.case_no }

\* the row insert(...) adds, the table giving it its id
NewRow(rows, date_str, record) ==
    [ id |-> Cardinality(rows) + 1,
      date |-> date_str,
      court_hall |-> record.ch_no,
      list_number |-> record.list_no,
      case_number |-> record.case_no,
      total_appearances |-> 1 ]

\* update({... 'total_appearances': appearances ...}).eq('id', case_id)
UpdateRow(rows, case_id, appearances) ==
    { IF r.id = case_id THEN [r EXCEPT !.total_appearances = appearances] ELSE r : r \in rows }

InitBoard ==
    /\ ParseIdle /\ ParIdle /\ MainIdle /\ EodIdle
    /\ now = Day1
    /\ heard_cases = {}
    /\ unique_key \in BOOLEAN
    /\ scr \in [ Procs ->
                   { [ pc |-> "start", records |-> rs, idx |-> 1, date_str |-> NoDate,
                       existing |-> {}, new_count |-> 0, ret |-> 0 ] :
                     rs \in UNION { [1..n -> BoardRecords] : n \in 0..MaxRecords } } ]

\* the test of records, create_client and date_str, in call p
StartUpdate(p) ==
    /\ scr[p].pc = "start"
    /\ scr' = IF scr[p].records = <<>>
              THEN [scr EXCEPT ![p].pc = "done", ![p].ret = 0]
              ELSE [scr EXCEPT ![p].pc = "select", ![p].date_str = now]
    /\ UNCHANGED <<heard_cases, unique_key>>
    /\ UNCHANGED <<parseVars, now, parVars, mainVars, eodVars>>

\* existing = supabase.table('heard_cases').select(...).execute(), in call p
SelectExisting(p) ==
    /\ scr[p].pc = "select"
    /\ scr' = [scr EXCEPT
                 ![p].existing = Existing(heard_cases, scr[p].date_str,
                                          scr[p].records[scr[p].idx]),
                 ![p].pc = "write"]
    /\ UNCHANGED <<heard_cases, unique_key>>
    /\ UNCHANGED <<parseVars, now, parVars, mainVars, eodVars>>

\* the step to the next record, or the return of new_count
Advance(s, inserted) ==
    [s EXCEPT !.new_count = IF inserted THEN @ + 1 ELSE @,
              !.idx = @ + 1,
              !.pc = IF s.idx + 1 > Len(s.records) THEN "done" ELSE "select",
              !.ret = IF s.idx + 1 > Len(s.records)
                      THEN (IF inserted THEN s.new_count + 1 ELSE s.new_count)
                      ELSE @]

\* if existing.data: update of existing.data[0], any of the rows read, in call p
UpdateExisting(p) ==
    /\ scr[p].pc = "write"
    /\ scr[p].existing # {}
    /\ \E row \in scr[p].existing :
          heard_cases' = UpdateRow(heard_cases, row.id, row.total_appearances + 1)
    /\ scr' = [scr EXCEPT ![p] = Advance(scr[p], FALSE)]
    /\ UNCHANGED unique_key
    /\ UNCHANGED <<parseVars, now, parVars, mainVars, eodVars>>

\* else: insert of a new row, in call p.  Under a unique key an insert of a key
\* the table holds raises, which ends the call: except Exception, return 0
InsertNew(p) ==
    /\ scr[p].pc = "write"
    /\ scr[p].existing = {}
    /\ IF unique_key
          /\ Existing(heard_cases, scr[p].date_str, scr[p].records[scr[p].idx]) # {}
       THEN /\ heard_cases' = heard_cases
            /\ scr' = [scr EXCEPT ![p].pc = "done", ![p].ret = 0]
       ELSE /\ heard_cases' =
                  heard_cases \cup { NewRow(heard_cases, scr[p].date_str,
                                            scr[p].records[scr[p].idx]) }
            /\ scr' = [scr EXCEPT ![p] = Advance(scr[p], TRUE)]
    /\ UNCHANGED unique_key
    /\ UNCHANGED <<parseVars, now, parVars, mainVars, eodVars>>

NextBoard ==
    \/ \E p \in Procs : StartUpdate(p)
    \/ \E p \in Procs : SelectExisting(p)
    \/ \E p \in Procs : UpdateExisting(p)
    \/ \E p \in Procs : InsertNew(p)

SpecBoard == InitBoard /\ [][NextBoard]_vars

(***************************************************************************)
(* process_eod of scripts/eod_processor.py                                 *)
(***************************************************************************)
\* the most rows of cause_list
MaxScheduled == 2

\* the most calls of process_eod
MaxEodRuns == 2

CaseA == <<TokWP, TokNum5>>

CaseB == <<TokWA, TokNum6>>

CaseC == <<TokDM, TokNum7>>

\* rows of cause_list: case A in hall 1 on both days, case B in hall 2 on Day1
CauseRows ==
    { [date |-> Day1, court_hall |-> 1, case_number |-> CaseA, case_type |-> TokWP, judges |-> "J1"],
      [date |-> Day1, court_hall |-> 2, case_number |-> CaseB, case_type |-> TokWA, judges |-> "J2"],
      [date |-> Day2, court_hall |-> 1, case_number |-> CaseA, case_type |-> TokWP, judges |-> "J1"] }

\* rows of heard_cases: A and C on Day1, A on Day2; no list has case C
HeardRows ==
    { [id |-> 1, date |-> Day1, court_hall |-> 1, list_number |-> 1, case_number |-> CaseA,
       total_appearances |-> 1],
      [id |-> 2, date |-> Day1, court_hall |-> 2, list_number |-> 1, case_number |-> CaseC,
       total_appearances |-> 1],
      [id |-> 3, date |-> Day2, court_hall |-> 1, list_number |-> 1, case_number |-> CaseA,
       total_appearances |-> 1] }

\* select('*').eq('date', date_str) on cause_list
Scheduled(table, date_str) == SelectSeq(table, LAMBDA r : r.date = date_str)

\* heard_case_numbers = {case['case_number'] for case in heard_cases.data}
HeardNumbers(table, date_str) == { r.case_number : r \in { x \in table : x.date = date_str } }

\* round(heard / scheduled * 100, 2) in hundredths of a percent, a half going to
\* the even neighbour; 0 when scheduled is 0
Efficiency(heard, scheduled) ==
    IF scheduled > 0
    THEN IF 2 * ((heard * 10000) % scheduled) > scheduled
            \/ ( 2 * ((heard * 10000) % scheduled) = scheduled
                 /\ ((heard * 10000) \div scheduled) % 2 = 1 )
         THEN (heard * 10000) \div scheduled + 1
         ELSE (heard * 10000) \div scheduled
    ELSE 0

\* the case numbers of the scheduled cases
NumbersOf(scheduled_cases) == { scheduled_cases[i].case_number : i \in 1..Len(scheduled_cases) }

\* how many scheduled cases of the hall have their number in numbers
HallCount(scheduled_cases, hall, numbers) ==
    Cardinality({ i \in 1..Len(scheduled_cases) :
                    /\ scheduled_cases[i].court_hall = hall
                    /\ scheduled_cases[i].case_number \in numbers })

\* hall_stats of generate_hall_stats
HallStats(scheduled_cases, heard_case_numbers) ==
    [ hall \in { scheduled_cases[i].court_hall : i \in 1..Len(scheduled_cases) } |->
        [ scheduled |-> HallCount(scheduled_cases, hall, NumbersOf(scheduled_cases)),
          heard |-> HallCount(scheduled_cases, hall, heard_case_numbers) ] ]

\* how many scheduled cases of the judge have their number in numbers
JudgeCount(scheduled_cases, judge, numbers) ==
    Cardinality({ i \in 1..Len(scheduled_cases) :
                    /\ scheduled_cases[i].judges = judge
                    /\ scheduled_cases[i].case_number \in numbers })

\* judge_stats[judge]['court_hall']: the hall of the judge's last case
LastHallOf(scheduled_cases, judge) ==
    scheduled_cases[CHOOSE i \in 1..Len(scheduled_cases) :
                       /\ scheduled_cases[i].judges = judge
                       /\ \A j \in (i + 1)..Len(scheduled_cases) :
                             scheduled_cases[j].judges # judge].court_hall

\* one of judge_records, from the counts of the judge
JudgeRecord(date_str, hall, judge, scheduled, heard) ==
    [ date |-> date_str,
      court_hall |-> hall,
      judge_name |-> judge,
      cases_scheduled |-> scheduled,
      cases_heard |-> heard,
      cases_not_reached |-> scheduled - heard,
      hearing_efficiency |-> Efficiency(heard, scheduled) ]

\* judge_records of generate_judge_stats
JudgeRecords(date_str, scheduled_cases, heard_case_numbers) ==
    { JudgeRecord(date_str, LastHallOf(scheduled_cases, judge), judge,
                  JudgeCount(scheduled_cases, judge, NumbersOf(scheduled_cases)),
                  JudgeCount(scheduled_cases, judge, heard_case_numbers)) :
        judge \in { scheduled_cases[i].judges : i \in 1..Len(scheduled_cases) } }

\* upsert(judge_records, on_conflict='date,court_hall,judge_name')
UpsertJudge(table, records) ==
    { r \in table :
        ~\E n \in records : /\ n.date = r.date
                            /\ n.court_hall = r.court_hall
                            /\ n.judge_name = r.judge_name }
    \cup records

\* summary of save_daily_summary
Summary(date_str, scheduled, heard, not_reached, efficiency, scheduled_cases) ==
    [ date |-> date_str,
      total_scheduled |-> scheduled,
      total_heard |-> heard,
      total_not_reached |-> not_reached,
      overall_efficiency |-> efficiency,
      total_court_halls |->
          Cardinality({ scheduled_cases[i].court_hall : i \in 1..Len(scheduled_cases) }) ]

\* upsert(summary): the row of the date is replaced (the key of daily_summary
\* is taken to be its date)
UpsertSummary(table, summary) == { r \in table : r.date # summary.date } \cup {summary}

\* the update of update_case_history that leaves total_listings as it is
HistUpdateNoListing(r, hist, date_str, was_heard) ==
    [ r EXCEPT !.last_listed_date = date_str,
               !.total_hearings = hist.total_hearings + (IF was_heard THEN 1 ELSE 0),
               !.current_status = IF was_heard THEN "heard" ELSE "pending" ]

\* update({...}).eq('case_number', case_number) on the row r, from hist = existing.data[0]
HistUpdate(r, hist, date_str, was_heard) ==
    [ r EXCEPT !.last_listed_date = date_str,
               !.total_listings = hist.total_listings + 1,
               !.total_hearings = hist.total_hearings + (IF was_heard THEN 1 ELSE 0),
               !.current_status = IF was_heard THEN "heard" ELSE "pending" ]

\* the row update_case_history inserts for a case not in case_history
HistInsert(case, date_str, was_heard) ==
    [ case_number |-> case.case_number,
      case_type |-> case.case_type,
      first_listed_date |-> date_str,
      last_listed_date |-> date_str,
      total_listings |-> 1,
      total_hearings |-> IF was_heard THEN 1 ELSE 0,
      current_status |-> IF was_heard THEN "heard" ELSE "pending" ]

\* one turn of the loop of update_case_history, existing being the rows of the case
HistStep(table, existing, case, date_str, was_heard) ==
    IF existing # {}
    THEN { IF r \in existing
           THEN HistUpdate(r, CHOOSE h \in existing : TRUE, date_str, was_heard)
           ELSE r : r \in table }
    ELSE table \cup {HistInsert(case, date_str, was_heard)}

\* update_case_history from the i-th scheduled case on; the turn `failing`
\* raises and is skipped by the except
RECURSIVE update_case_history(_, _, _, _, _, _)
update_case_history(table, date_str, scheduled_cases, heard_case_numbers, i, failing) ==
    IF i > Len(scheduled_cases)
    THEN table
    ELSE update_case_history(
             IF i = failing
             THEN table
             ELSE HistStep(table,
                           { r \in table : r.case_number = scheduled_cases[i].case_number },
                           scheduled_cases[i], date_str,
                           scheduled_cases[i].case_number \in heard_case_numbers),
             date_str, scheduled_cases, heard_case_numbers, i + 1, failing)

\* the request of a run that raises: none, a select of process_eod, an upsert,
\* or the k-th turn of update_case_history
Failures ==
    { [at |-> a, k |-> 0] :
        a \in {"none", "cause_list", "heard_cases", "judge_statistics", "daily_summary"} }
    \cup { [at |-> "case_history", k |-> k] : k \in 1..MaxScheduled }

\* what a run of process_eod logs: its date, how it ended, the request that
\* raised, the figures of lines 48-51 and hall_stats
EodEntry(date_str, result, fail, scheduled, heard, halls) ==
    [ date |-> date_str,
      result |-> result,
      failed |-> fail.at,
      scheduled |-> scheduled,
      heard |-> heard,
      not_reached |-> scheduled - heard,
      efficiency |-> Efficiency(heard, scheduled),
      halls |-> halls ]

\* a run that ends before any write: the early return or a raising select
EodStop(date_str, result, fail) ==
    /\ eod_log' = Append(eod_log, EodEntry(date_str, result, fail, 0, 0, <<>>))
    /\ UNCHANGED <<judge_statistics, daily_summary, case_history>>

\* process_eod from line 44 on: the figures, the statistics and the history
EodWrites(date_str, fail, scheduled_cases, heard_case_numbers) ==
    /\ judge_statistics' =
           IF fail.at = "judge_statistics"
           THEN judge_statistics
           ELSE UpsertJudge(judge_statistics,
                            JudgeRecords(date_str, scheduled_cases, heard_case_numbers))
    /\ daily_summary' =
           IF fail.at = "daily_summary"
           THEN daily_summary
           ELSE UpsertSummary(daily_summary,
                              Summary(date_str, Len(scheduled_cases),
                                      Cardinality(heard_case_numbers),
                                      Len(scheduled_cases) - Cardinality(heard_case_numbers),
                                      Efficiency(Cardinality(heard_case_numbers),
                                                 Len(scheduled_cases)),
                                      scheduled_cases))
    /\ case_history' = update_case_history(case_history, date_str, scheduled_cases,
                                           heard_case_numbers, 1, fail.k)
    /\ eod_log' = Append(eod_log,
                         EodEntry(date_str, "completed", fail, Len(scheduled_cases),
                                  Cardinality(heard_case_numbers),
                                  HallStats(scheduled_cases, heard_case_numbers)))

\* process_eod without the return of lines 34-36
EodRunNoReturn(date_str, fail, scheduled_cases, heard_case_numbers) ==
    IF fail.at \in {"cause_list", "heard_cases"}
    THEN EodStop(date_str, "error", fail)
    ELSE EodWrites(date_str, fail, scheduled_cases, heard_case_numbers)

\* process_eod on the rows the two selects return
EodRun(date_str, fail, scheduled_cases, heard_case_numbers) ==
    IF fail.at = "cause_list"
    THEN EodStop(date_str, "error", fail)
    ELSE IF scheduled_cases = <<>>
         THEN EodStop(date_str, "no_scheduled", fail)
         ELSE IF fail.at = "heard_cases"
              THEN EodStop(date_str, "error", fail)
              ELSE EodWrites(date_str, fail, scheduled_cases, heard_case_numbers)

RECURSIVE SeqsUpTo(_, _)
SeqsUpTo(S, n) ==
    IF n = 0
    THEN {<<>>}
    ELSE SeqsUpTo(S, n - 1)
         \cup { Append(q, x) : q \in { r \in SeqsUpTo(S, n - 1) : Len(r) = n - 1 }, x \in S }

InitEod ==
    /\ cause_list \in SeqsUpTo(CauseRows, MaxScheduled)
    /\ heard_cases \in SUBSET HeardRows
    /\ unique_key = FALSE
    /\ scr = [p \in Procs |-> [pc |-> "idle"]]
    /\ judge_statistics = {}
    /\ daily_summary = {}
    /\ case_history = {}
    /\ eod_log = <<>>
    /\ now \in Days
    /\ ParseIdle /\ ParIdle /\ MainIdle

\* date_str = target_date or datetime.now().strftime('%Y-%m-%d')
DateOf(target_date) == IF target_date = NoDate THEN now ELSE target_date

ProcessEod ==
    \E target_date \in Days \cup {NoDate}, fail \in Failures :
        /\ Len(eod_log) < MaxEodRuns
        /\ fail.k <= Len(Scheduled(cause_list, DateOf(target_date)))
        /\ EodRun(DateOf(target_date), fail, Scheduled(cause_list, DateOf(target_date)),
                  HeardNumbers(heard_cases, DateOf(target_date)))
        /\ UNCHANGED <<cause_list, parseVars, now, parVars, mainVars, boardVars>>

NextEod == ProcessEod

SpecEod == InitEod /\ [][NextEod]_vars

(***************************************************************************)
(* What the claims speak of, read off the document itself                  *)
(***************************************************************************)
\* the lines of the document
DocLineSeq == SplitLines(text)

\* line i of the document is a well-formed case line
IsCaseLineAt(i) == parse_case_line(DocLineSeq[i]) # None

\* the positions of the hall markers of the document
MarkerSet == { p \in 1..Len(text) : HallMatchAt(text, p) }

\* the identifier the hall marker at position p states: the whole token
HallIdAt(p) == text[NextTokIdx(text, p)]

\* the court_hall value h is the hall the identifier names
HallIs(h, id) == IsAllDigits(id) /\ h = ToInt(id)

\* the first hall marker on line i or later
NextMarkerFrom(i) ==
    CHOOSE p \in MarkerSet :
        /\ LineOf(text, p) >= i
        /\ \A q \in MarkerSet : LineOf(text, q) >= i => p <= q

\* line i holds an END marker
IsEndLine(i) == \E m \in 1..Len(DocLineSeq[i]) : IsEndTok(DocLineSeq[i][m])

\* line i holds one of the lexical markers (hall, list, judge, END, stage, underline)
IsMarkerLine(i) ==
    \/ IsEndLine(i)
    \/ IsUnderline(DocLineSeq[i])
    \/ HasStageKeyword(DocLineSeq[i])
    \/ \E m \in 1..Len(DocLineSeq[i]) : DocLineSeq[i][m] \in {HallKw, ListKw, JudgeKw}

\* the case line i has a hall marker embedded after its case number
HasEmbeddedMarker(i) ==
    /\ IsCaseLineAt(i)
    /\ \E p \in MarkerSet : LineOf(text, p) = i

\* the positions of the list markers and of the judge blocks of the document
ListSet == { p \in 1..Len(text) : ListMatchAt(text, p) }
JudgeSet == { p \in 1..Len(text) : JudgeMatchAt(text, p) }

\* the hall marker of record r is the last one before its case line
UnderOwnMarker(r) ==
    \A q \in MarkerSet : LineOf(text, q) < r.src => q <= r.hall_pos

\* the last position of S on a line before line i and after position lo
LastBefore(S, lo, i) ==
    CHOOSE p \in S :
        /\ p > lo /\ LineOf(text, p) < i
        /\ \A q \in S : (q > lo /\ LineOf(text, q) < i) => q <= p

\* line i lies under a hall: a hall marker precedes it on an earlier line, and no
\* END marker lies between that marker and line i
IsUnderHall(i) ==
    \E q \in MarkerSet :
        /\ LineOf(text, q) < i
        /\ \A e \in LineOf(text, q)..(i - 1) : ~IsEndLine(e)

\* the document lines that hold a well-formed case line, in order
CaseLineSeq ==
    SelectSeq([i \in 1..Len(DocLineSeq) |-> i], LAMBDA i : IsCaseLineAt(i))

\* the first well-formed case line after line i, one past the last line when none
NextCaseLineAfter(i) ==
    IF \E j \in (i + 1)..Len(DocLineSeq) : IsCaseLineAt(j)
    THEN CHOOSE j \in (i + 1)..Len(DocLineSeq) :
            IsCaseLineAt(j) /\ \A m \in (i + 1)..(j - 1) : ~IsCaseLineAt(m)
    ELSE Len(DocLineSeq) + 1

\* the value of a serial token with at most one fractional digit, in tenths
SerialTenths(tok) ==
    IF IsAllDigits(tok) THEN 10 * ToInt(tok)
    ELSE 10 * ToInt(LeadingDigits(tok)) + ToInt(TrailingDigits(tok))

\* the catalogue together with the compound code MFA.CROB
ClaimCodes == CaseTypeCodes \cup {TokMFACROB}

IsProperPrefixCI(c1, c2) == Len(c1) < Len(c2) /\ StartsWithCI(c2, c1)

(***************************************************************************)
(* The claims                                                              *)
(***************************************************************************)
\* C1: a case line that precedes the first hall marker of the document still has
\* a record in the final output, and that record carries the hall of that marker.
C1_OrphanBackfilled ==
    (pc = "done" /\ MarkerSet # {}) =>
        \A i \in 1..Len(DocLineSeq) :
            (IsCaseLineAt(i) /\ i < LineOf(text, NextMarkerFrom(1))) =>
                \E k \in 1..Len(all_cases) :
                    /\ all_cases[k].src = i
                    /\ HallIs(all_cases[k].court_hall, HallIdAt(NextMarkerFrom(1)))

\* C2: a case line of a later unknown-hall window (after the END of a hall's
\* section, before the next hall marker) has a record, and every record of it
\* carries the hall of the next marker that follows it and no other hall.
C2_LaterWindowBackfilled ==
    pc = "done" =>
        \A i \in 1..Len(DocLineSeq) : \A e \in 1..(i - 1) :
            ( /\ IsCaseLineAt(i)
              /\ IsEndLine(e)
              /\ \E q \in MarkerSet : LineOf(text, q) < e
              /\ \A q \in MarkerSet : ~(e < LineOf(text, q) /\ LineOf(text, q) < i)
              /\ \E q \in MarkerSet : LineOf(text, q) > i )
            => /\ \E k \in 1..Len(all_cases) : all_cases[k].src = i
               /\ \A k \in 1..Len(all_cases) :
                     all_cases[k].src = i =>
                         HallIs(all_cases[k].court_hall, HallIdAt(NextMarkerFrom(i + 1)))

\* C3: once a record is in the output its court hall is never changed: no later
\* hall marker, embedded ones included, rewrites the hall of a record.
C3_HallNeverRewritten ==
    [][ \A k \in 1..Len(all_cases) :
            /\ k <= Len(all_cases')
            /\ all_cases'[k].court_hall = all_cases[k].court_hall ]_vars

\* C3 witness: two sections are processed, the second one started by a marker
\* embedded in the case line of the first record, whose hall is another one.
C3_Witness ==
    /\ pc = "halls"
    /\ hall_idx = 3
    /\ Len(all_cases) >= 2
    /\ LineOf(text, court_halls[2].start_pos) = all_cases[1].src
    /\ all_cases[1].hall_pos = court_halls[1].start_pos
    /\ all_cases[1].court_hall # court_halls[2].hall_number

\* C4: a record whose hall marker is the last one before its case line carries the
\* number of the most recent list marker between that hall marker and the case
\* line, and the name of the most recent judge block between them.
C4_ContextAtPosition ==
    pc = "done" =>
        \A k \in 1..Len(all_cases) :
            LET r == all_cases[k] IN
            UnderOwnMarker(r) =>
                /\ (\E p \in ListSet : p > r.hall_pos /\ LineOf(text, p) < r.src) =>
                      r.list_number =
                          ToInt(LeadingDigits(
                              text[NextTokIdx(text, LastBefore(ListSet, r.hall_pos, r.src))]))
                /\ (\E p \in JudgeSet : p > r.hall_pos /\ LineOf(text, p) < r.src) =>
                      r.judge_name =
                          JudgeNameAt(text, LastBefore(JudgeSet, r.hall_pos, r.src))

\* C5: for a document all of whose case lines lie under a hall, the output holds
\* exactly one record per well-formed case line, in document order.
C5_OneRecordPerCaseLine ==
    (pc = "done" /\ text # <<>> /\ \A i \in 1..Len(DocLineSeq) : IsCaseLineAt(i) => IsUnderHall(i)) =>
        [k \in 1..Len(all_cases) |-> all_cases[k].src] = CaseLineSeq

\* C6: every record carries the identifier its hall marker states, the whole
\* alphanumeric token: a record under 'COURT HALL NO : 2A' carries 2A.
C6_FullHallIdentifier ==
    pc = "done" =>
        \A k \in 1..Len(all_cases) :
            HallIs(all_cases[k].court_hall, HallIdAt(all_cases[k].hall_pos))

\* C7: when a code matches the type token of a parsed line, the extracted case
\* type starts with that code, ignoring case, so of two matching codes it holds
\* the longer one; when the token is the code, the case type is the code in
\* upper case (MFA.CROB for MFA.CROB and for mfa.crob, never MFA).
C7_LongestCaseType ==
    (pc = "parsed" /\ parsed # None) =>
        \A c \in ClaimCodes :
            StartsWithCI(line_in[2], c) =>
                /\ StartsWithCI(parsed.case_type, c)
                /\ Len(line_in[2]) = Len(c) => parsed.case_type = UpperTok(c)
                /\ \A b \in ClaimCodes :
                      IsProperPrefixCI(b, c) => parsed.case_type # UpperTok(b)

\* C7 witness: the line `7 mfa.crob 123/2024 PET: A RES: B` is parsed, MFA and
\* MFA.CROB both match its type token, and the case type is MFA.CROB.
C7_Witness ==
    /\ pc = "parsed"
    /\ parsed # None
    /\ line_in = <<<<"7">>, <<"m", "f", "a", ".", "c", "r", "o", "b">>,
                    <<"1", "2", "3", "/", "2", "0", "2", "4">>,
                    PetKw, <<"A">>, ResKw, <<"B">>>>
    /\ parsed.respondent_text = <<<<"B">>>>
    /\ StartsWithCI(line_in[2], TokMFA)
    /\ parsed.case_type = TokMFACROB

\* C8: the serial number of a parsed case line is the number its serial token
\* states, fractional suffix included: 44.1 for a line that starts `44.1`.
C8_DecimalSerialKept ==
    (pc = "parsed" /\ parsed # None) =>
        10 * parsed.sl_no = SerialTenths(line_in[1])

\* C9: the continuation of a case line without embedded hall marker (a) holds no
\* line from the next well-formed case line on, and (b) holds every text line
\* between the case line and the next case line or marker line, however many.
C9_ContinuationToNextAnchor ==
    pc = "done" =>
        \A k \in 1..Len(all_cases) :
            LET r == all_cases[k] IN
            ~HasEmbeddedMarker(r.src) =>
                /\ \A m \in 1..Len(r.cont_src) : r.cont_src[m] < NextCaseLineAfter(r.src)
                /\ \A j \in (r.src + 1)..Len(DocLineSeq) :
                      ( /\ DocLineSeq[j] # <<>>
                        /\ \A m \in (r.src + 1)..j : ~IsMarkerLine(m) /\ ~IsCaseLineAt(m) )
                      => \E m \in 1..Len(r.cont_src) : r.cont_src[m] = j

\* C10: for a record whose case line holds an embedded hall marker, (b) the stored
\* respondent text holds no hall marker, and (a) every case line that follows,
\* up to the next marker or END, has a record and only records with the new hall.
C10_EmbeddedMarkerApplied ==
    pc = "done" =>
        \A k \in 1..Len(all_cases) :
            LET r == all_cases[k] IN
            HasEmbeddedMarker(r.src) =>
                /\ \A m \in 1..Len(r.respondent_text) : r.respondent_text[m] # HallKw
                /\ \A j \in (r.src + 1)..Len(DocLineSeq) :
                      ( /\ IsCaseLineAt(j)
                        /\ \A m \in (r.src + 1)..j :
                              ~IsEndLine(m) /\ ~\E q \in MarkerSet : LineOf(text, q) = m )
                      => /\ \E n \in 1..Len(all_cases) : all_cases[n].src = j
                         /\ \A n \in 1..Len(all_cases) :
                               all_cases[n].src = j =>
                                   HallIs(all_cases[n].court_hall,
                                          HallIdAt(NextMarkerFrom(r.src)))

(***************************************************************************)
(* Two calls side by side                                                  *)
(***************************************************************************)
\* C11: two parses of the same document text return the same record sequence,
\* whenever each of them runs: the date of the records is not read off the clock.
C11_SameTextSameRecords ==
    ( /\ runs[1].pc = "done"
      /\ runs[2].pc = "done"
      /\ runs[1].text = runs[2].text )
    => runs[1].all_cases = runs[2].all_cases

\* C19: under every interleaving of two calls, what a call returns is what the
\* call returns alone on its text at its date; the other call adds nothing to
\* it, takes nothing from it and reorders nothing in it.
C19_NoSharedState ==
    \A p \in Procs :
        runs[p].pc = "done" =>
            runs[p].all_cases = parse_cause_list_pdf(runs[p].text, runs[p].date_str)

\* both calls are past their loops, which interleaved: each returned records,
\* from different documents
C19_Witness ==
    /\ runs[1].pc = "done"
    /\ runs[2].pc = "done"
    /\ runs[1].text # runs[2].text
    /\ Len(runs[1].all_cases) > 0
    /\ Len(runs[2].all_cases) > 1

(***************************************************************************)
(* main                                                                    *)
(***************************************************************************)
\* what main itself reports: the messages it logs, in order
MainReport == SelectSeq(log, LAMBDA e : e.by = "main")

\* the fetch gave a PDF document
IsPdf == remote.kind = "bytes" /\ remote.body # NoBytes

\* the remote call raised, or returned nothing
FetchFailed == remote.kind = "raise" \/ (remote.kind = "bytes" /\ remote.body = NoBytes)

\* the text of a page of the document could not be extracted
ExtractFailed == IsPdf /\ \E i \in 1..Len(remote.body.pages) : ~remote.body.pages[i].readable

\* the document holds no text
EmptyDocument ==
    IsPdf /\ \A i \in 1..Len(remote.body.pages) :
                remote.body.pages[i].readable /\ remote.body.pages[i].lines = <<>>

\* the gating decision of (extracted date or none, expected date, already processed)
Gate(extracted, expected, processed) ==
    IF extracted = NoDate THEN "DATE_UNKNOWN"
    ELSE IF extracted # expected THEN "DATE_MISMATCH"
    ELSE IF processed THEN "ALREADY_PROCESSED"
    ELSE "NEW"

Decisions == {"DATE_UNKNOWN", "DATE_MISMATCH", "ALREADY_PROCESSED", "NEW"}

\* C12: once the records of a document are parsed and before they are stored,
\* the run has reported exactly one gating decision, the one the priority
\* DATE_UNKNOWN, DATE_MISMATCH, ALREADY_PROCESSED, NEW gives for the date the
\* document states, today's date and whether the table holds rows of today.
C12_GatingDecision ==
    (main_pc = "parsed" /\ IsPdf) =>
        { log[i].msg : i \in { j \in 1..Len(log) : log[j].msg \in Decisions } }
            = { Gate(remote.body.dated, now, \E r \in stored : r.date = now) }

\* C13: every well-formed case line of a readable page that starts with a hall
\* marker has its record, whatever else in the document cannot be parsed.
C13_MalformedUnitSkipped ==
    (main_pc = "done" /\ IsPdf) =>
        \A i \in 1..Len(remote.body.pages) :
            LET pg == remote.body.pages[i] IN
            (pg.readable /\ pg.lines # <<>> /\ pg.lines[1] = LineHall1) =>
                \A j \in 1..Len(pg.lines) :
                    parse_case_line(pg.lines[j]) # None =>
                        \E k \in 1..Len(main_cases) :
                            main_cases[k].case_number = parse_case_line(pg.lines[j]).case_number

\* what main reports for a document without pages
EmptyReport ==
    AfterParse(parse_cause_list_pdf(
                 extract_text_from_pdf([body |-> [pages |-> <<>>, dated |-> NoDate]]), Day1))

\* C16: an empty document gives no records, and a run whose fetch or whose text
\* extraction failed does not report what a run on an empty document reports.
C16_EmptyDocumentDistinct ==
    main_pc = "done" =>
        /\ EmptyDocument => main_cases = <<>>
        /\ (FetchFailed \/ ExtractFailed) => MainReport # EmptyReport

\* C17: when the fetch failed, main has no pdf_file to hand to the parser and
\* reports the failed download.
C17_FetchFailureUnavailable ==
    (main_pc = "done" /\ FetchFailed) =>
        /\ pdf_file = None
        /\ MainReport = <<Msg("main", "ERROR", "Failed to download PDF")>>

\* C18: a run whose RPC raised does not end in the message a successful run
\* ends in.  (The failed fetch that goes on as an empty result is C17's case.)
C18_FailureExplicit ==
    main_pc = "done" =>
        ( (\E i \in 1..Len(log) : log[i].msg = "Supabase RPC error") =>
              MainReport[Len(MainReport)].msg # "Cause list parsing completed successfully" )

(***************************************************************************)
(* The case identifier                                                     *)
(***************************************************************************)
\* the characters of a fragment, one space between two tokens
RECURSIVE Flat(_)
Flat(toks) ==
    IF toks = <<>> THEN <<>>
    ELSE IF Len(toks) = 1 THEN toks[1]
    ELSE toks[1] \o <<" ">> \o Flat(Tail(toks))

\* closing minus opening parentheses among the characters from i on
ParenDepth(cs, i) ==
    Cardinality({ j \in i..Len(cs) : cs[j] = ")" }) - Cardinality({ j \in i..Len(cs) : cs[j] = "(" })

\* the opening parenthesis that matches the one the fragment ends with: the
\* first, scanning backward, at which the depth is back to zero (0: none)
MatchingOpen(cs) ==
    IF \E i \in 1..Len(cs) : ParenDepth(cs, i) = 0
    THEN CHOOSE i \in 1..Len(cs) :
            ParenDepth(cs, i) = 0 /\ \A j \in (i + 1)..Len(cs) : ParenDepth(cs, j) # 0
    ELSE 0

\* the text between the final parenthesis and its matching one
Annotation(cs) == SubSeq(cs, MatchingOpen(cs) + 1, Len(cs) - 1)

EndsWithParen(line) == line # <<>> /\ Flat(line)[Len(Flat(line))] = ")"

\* the fragment of a case line: the line after its serial number
Fragment(line) == Tail(line)

\* C14: for a line without case-number pattern the identifier parser returns a
\* result, with the case number marked unresolved and the whole fragment as
\* details; the item is not dropped.
C14_UnresolvedKept ==
    (pc = "parsed" /\ ~\E k \in 1..Len(line_in) : CaseMatchAt(line_in, k)) =>
        /\ parsed # None
        /\ parsed.case_number = <<>>
        /\ parsed.respondent_text = Fragment(line_in)

\* C15: for a well-formed case line that ends in ")", the case type is the text
\* between that parenthesis and its matching one, found by depth, and the case
\* number is the identifier without the annotation.
C15_BalancedAnnotation ==
    (pc = "parsed" /\ parsed # None /\ EndsWithParen(line_in)
        /\ MatchingOpen(Flat(line_in)) > 0) =>
        /\ parsed.case_type = Annotation(Flat(line_in))
        /\ Flat(parsed.case_number) = Flat(SubSeq(line_in, 2, 3))

(***************************************************************************)
(* heard_cases                                                             *)
(***************************************************************************)
\* how many times the calls were handed record rec
Observed(rec) ==
    Cardinality({ <<p, i>> \in Procs \X (1..MaxRecords) :
                    i <= Len(scr[p].records) /\ scr[p].records[i] = rec })

\* C20: when the calls have returned, heard_cases holds one row for each case
\* that was observed, none twice, and the row's total_appearances is the number
\* of times the case was observed.
C20_OneRowPerCase ==
    (\A p \in Procs : scr[p].pc = "done") =>
        \A rec \in BoardRecords :
            Observed(rec) > 0 =>
                /\ Cardinality(Existing(heard_cases, now, rec)) = 1
                /\ \A r \in Existing(heard_cases, now, rec) :
                      r.total_appearances = Observed(rec)

(***************************************************************************)
(* Hall sections and case stages                                           *)
(***************************************************************************)
\* C21: a hall section ends no later than the next hall marker starts, so the
\* sections are pairwise disjoint and no case line has records in two of them.
C21_SectionsDisjoint ==
    pc \in {"halls", "done"} =>
        /\ \A i \in 1..(Len(court_halls) - 1) :
              court_halls[i].start_pos + Len(court_halls[i].text)
                  <= court_halls[i + 1].start_pos
        /\ \A k, n \in 1..Len(all_cases) :
              k # n => all_cases[k].src # all_cases[n].src

\* the lines of the hall section record r comes from
SectionLinesOf(r) ==
    SplitLines((CHOOSE h \in { court_halls[i] : i \in 1..Len(court_halls) } :
                    h.start_pos = r.hall_pos).text)

\* the line of record r within its section
SectionLineOf(r) == r.src - LineOf(text, r.hall_pos) + 1

\* the stage headers of the section before line li: a line with a stage keyword,
\* the next line an underline
HeadersBefore(lines, li) ==
    { j \in 1..(li - 1) :
        /\ HasStageKeyword(lines[j])
        /\ j + 1 <= Len(lines)
        /\ IsUnderline(lines[j + 1]) }

\* the last of them, None when there is none
StageBefore(lines, li) ==
    IF HeadersBefore(lines, li) = {} THEN None
    ELSE lines[CHOOSE j \in HeadersBefore(lines, li) :
                  \A m \in HeadersBefore(lines, li) : m <= j]

\* C25: the case_stage of every record is the last stage header before its case
\* line in its own hall section, None when the section has none before it, and
\* the line of a record is no stage header.
C25_StageIsLastHeader ==
    \A k \in 1..Len(all_cases) :
        /\ ToString(all_cases[k].case_stage)
              = ToString(StageBefore(SectionLinesOf(all_cases[k]), SectionLineOf(all_cases[k])))
        /\ SectionLineOf(all_cases[k])
              \notin HeadersBefore(SectionLinesOf(all_cases[k]), SectionLineOf(all_cases[k]) + 1)

\* a document with a record under a stage header and, in a later hall section
\* without header, a record without stage
C25_Witness ==
    /\ pc = "done"
    /\ \E k, n \in 1..Len(all_cases) :
          /\ k < n
          /\ all_cases[k].hall_pos < all_cases[n].hall_pos
          /\ all_cases[k].src < LineOf(text, all_cases[n].hall_pos)
          /\ ToString(all_cases[k].case_stage) = ToString(LineStage)
          /\ ToString(all_cases[n].case_stage) = ToString(None)

\* the sum of the heard counts of hall_stats over the halls of S
RECURSIVE SumHeard(_, _)
SumHeard(halls, S) ==
    IF S = {}
    THEN 0
    ELSE halls[CHOOSE h \in S : TRUE].heard
         + SumHeard(halls, S \ {CHOOSE h \in S : TRUE})

\* C22: the figures of every completed run of process_eod, and of every row of
\* daily_summary, are consistent: 0 <= heard <= scheduled, not_reached =
\* scheduled - heard >= 0, efficiency at most 100 percent, and the heard total
\* is the sum of the heard counts of the halls
C22_FiguresConsistent ==
    /\ \A i \in 1..Len(eod_log) :
          eod_log[i].result = "completed" =>
              /\ 0 <= eod_log[i].heard
              /\ eod_log[i].heard <= eod_log[i].scheduled
              /\ eod_log[i].not_reached = eod_log[i].scheduled - eod_log[i].heard
              /\ eod_log[i].not_reached >= 0
              /\ eod_log[i].efficiency <= 10000
              /\ eod_log[i].heard = SumHeard(eod_log[i].halls, DOMAIN eod_log[i].halls)
    /\ \A r \in daily_summary :
          /\ 0 <= r.total_heard
          /\ r.total_heard <= r.total_scheduled
          /\ r.total_not_reached = r.total_scheduled - r.total_heard
          /\ r.total_not_reached >= 0
          /\ r.overall_efficiency <= 10000

\* a step is a run of process_eod that follows a run for the same date, no
\* request raising in either
SecondRun ==
    /\ Len(eod_log) >= 1
    /\ Len(eod_log') = Len(eod_log) + 1
    /\ eod_log'[Len(eod_log')].date = eod_log[Len(eod_log)].date
    /\ eod_log'[Len(eod_log')].failed = "none"
    /\ eod_log[Len(eod_log)].failed = "none"
    /\ cause_list' = cause_list
    /\ heard_cases' = heard_cases

\* C23: a second run of process_eod for the same date, cause_list and
\* heard_cases unchanged, leaves judge_statistics, daily_summary and
\* case_history as the first run left them
C23_SecondRunSame ==
    [][SecondRun => UNCHANGED <<judge_statistics, daily_summary, case_history>>]_vars

\* C24: every row of case_history has total_hearings <= total_listings and
\* total_listings >= 1, its current_status is 'heard' exactly when the case is
\* among the heard cases of the date the row was last listed on, and no step
\* changes the first_listed_date of a row
C24_HistoryRows ==
    /\ [](\A r \in case_history :
             /\ r.total_hearings <= r.total_listings
             /\ r.total_listings >= 1
             /\ r.current_status \in {"heard", "pending"}
             /\ r.current_status = "heard"
                   <=> r.case_number \in HeardNumbers(heard_cases, r.last_listed_date))
    /\ [][\A r \in case_history :
             \E n \in case_history' : /\ n.case_number = r.case_number
                                       /\ n.first_listed_date = r.first_listed_date]_vars

\* a case listed on two dates, not heard on the first and heard on the second
C24_Witness ==
    \E r \in case_history :
        /\ r.total_listings = 2
        /\ r.total_hearings = 1
        /\ r.current_status = "heard"
        /\ r.first_listed_date # r.last_listed_date

\* C26: a run of process_eod for a date with no row in cause_list writes to
\* none of judge_statistics, daily_summary and case_history, whatever
\* heard_cases holds
C26_NoScheduledNoWrite ==
    [][( /\ Len(eod_log') = Len(eod_log) + 1
         /\ Scheduled(cause_list, eod_log'[Len(eod_log')].date) = <<>> )
       => UNCHANGED <<judge_statistics, daily_summary, case_history>>]_vars

\* a run has returned early for a date that has heard cases, after a run that wrote
C26_Witness ==
    /\ Len(eod_log) = 2
    /\ eod_log[1].result = "completed"
    /\ eod_log[2].result = "no_scheduled"
    /\ HeardNumbers(heard_cases, eod_log[2].date) # {}
    /\ daily_summary # {}

====
